---- MODULE Spec2Model ----
(***************************************************************************)
(* rag-chat-django: the upload / ingestion pipeline, document deletion and *)
(* the chat turn, with the three external stores they write to:            *)
(*   - the file store (Cloudinary):   cloud, destroyCalls                  *)
(*   - the vector index (Pinecone):   index                                *)
(*   - the record store (Django ORM): documents, chunkRows, sessions,      *)
(*                                    messages                             *)
(* A text is abstracted to its trimmed length in characters and its number *)
(* of whitespace-separated words; a chunk to the window of words it holds. *)
(***************************************************************************)
EXTENDS Integers, Sequences, FiniteSets, TLC

(* ------------------------------ bounds --------------------------------- *)
\* runs of upload_document / process_document in flight at the same time
MaxJobs == 2
\* Document ids handed out (admin site and upload_document)
MaxDocs == 2
\* files the file store accepts
MaxUploads == 2
\* DocumentChunk rows added through the admin site, per document
MaxAdminChunks == 1
\* messages a session may hold when a send_message request is still taken
MaxMsgs == 12
\* ChatMessage rows written by other callers of the ORM, per session
MaxForeignMsgs == 1
\* most words of a text handed to chunk_text on its own
MaxWords == 1000

(* ------------------------- program constants --------------------------- *)
MAX_UPLOAD_SIZE == 10485760
ALLOWED_FILE_TYPES == {"pdf", "docx", "doc", "txt", "csv", "png", "jpg", "jpeg"}
\* "cloudinary_url, public_id = ..." : two targets
UNPACK_TARGETS == 2
MIN_TEXT_CHARS == 10
CHUNK_SIZE == 500
CHUNK_OVERLAP == 50
BATCH_SIZE == 100
TOP_K == 3
HISTORY_LIMIT == 10

(* --------------------------- input domains ----------------------------- *)
Min(a, b) == IF a < b THEN a ELSE b

\* texts an extraction can yield: [chars: trimmed length, words: word count]
NoText == [chars |-> 0, words |-> 0]
ShortText == [chars |-> 5, words |-> 1]
OneChunkText == [chars |-> 12, words |-> 2]
FourChunkText == [chars |-> 9000, words |-> 1800]
TwoBatchText == [chars |-> 225005, words |-> 45001]
Texts == {NoText, ShortText, OneChunkText, FourChunkText, TwoBatchText}

\* file extensions / declared types offered to the handlers
FileTypes == {"pdf", "png", "exe"}
FileSizes == {1024, MAX_UPLOAD_SIZE + 1}
Files == [ext : FileTypes, size : FileSizes, text : {OneChunkText}]

\* texts handed to chunk_text: w one-letter words, single spaces between
WordsText(w) == [chars |-> IF w = 0 THEN 0 ELSE 2 * w - 1, words |-> w]
ChunkerTexts == {WordsText(w) : w \in 0..MaxWords}
\* the defaults, and parameter pairs with overlap >= chunk_size
ChunkParams ==
    {[chunk_size |-> CHUNK_SIZE, overlap |-> CHUNK_OVERLAP],
     [chunk_size |-> CHUNK_SIZE, overlap |-> CHUNK_SIZE],
     [chunk_size |-> CHUNK_SIZE, overlap |-> CHUNK_SIZE + 1],
     [chunk_size |-> CHUNK_OVERLAP, overlap |-> CHUNK_SIZE]}

JobIds == 1..MaxJobs
\* namespaces a caller of process_document may name: the document ids
Namespaces == 1..MaxDocs

VARIABLES
    cloud,          \* file store: set of [public_id, resource_type]
    destroyCalls,   \* file store: the destroy requests issued so far
    index,          \* vector index: set of [ns, id, text]
    documents,      \* record store: committed Document rows
    chunkRows,      \* record store: committed DocumentChunk rows
    sessions,       \* record store: ChatSession rows
    messages,       \* record store: session id -> ChatMessage rows by created_at
    jobs,           \* the runs of upload_document / process_document in flight
    lastRun,        \* the run that ended last, as it ended
    nextId,         \* next fresh id per kind (uuid4 / unique_filename)
    lastDelete,     \* the last delete_document request and its response
    lastTurn        \* the last send_message request and its response

vars == <<cloud, destroyCalls, index, documents, chunkRows, sessions, messages,
          jobs, lastRun, nextId, lastDelete, lastTurn>>

(* ------------------------------ file store ----------------------------- *)
get_resource_type(ext) ==
    IF ext \in {"jpg", "jpeg", "png", "gif", "webp", "bmp", "svg"}
    THEN "image"
    ELSE "raw"

\* upload_file's return value: (secure_url, public_id, resource_type)
UploadFileResult(pid, ext) ==
    << <<"secure_url", pid>>, pid, get_resource_type(ext) >>

\* cloudinary.uploader.destroy(public_id, resource_type): an asset is found
\* only under the resource type it was uploaded as
Destroy(store, pid, rtype) ==
    {a \in store : ~(a.public_id = pid /\ a.resource_type = rtype)}

\* delete_file(public_id) with the default resource_type 'raw'; net_ok = FALSE
\* is the destroy call raising, which delete_file swallows (returns False)
delete_file_store(store, pid, net_ok) ==
    IF net_ok THEN Destroy(store, pid, "raw") ELSE store

delete_file_result(store, pid, net_ok) ==
    net_ok /\ \E a \in store : a.public_id = pid /\ a.resource_type = "raw"

(* ---------------------------- DocumentProcessor ------------------------ *)
\* extract_text: the text of a well-formed file of a handled type
extract_text(file_type, text, wellformed) ==
    IF file_type \in {"pdf", "docx", "doc", "txt", "csv"}
    THEN IF wellformed
         THEN [ok |-> TRUE, text |-> text, err |-> ""]
         ELSE [ok |-> FALSE, text |-> NoText, err |-> "extraction failed"]
    ELSE [ok |-> FALSE, text |-> NoText, err |-> "Unsupported file type"]

\* range(i, W, step) for step > 0, with words[i:i + chunk_size] at each offset
RECURSIVE Windows(_, _, _, _)
Windows(i, W, chunk_size, step) ==
    IF i >= W
    THEN <<>>
    ELSE <<[start |-> i, len |-> IF chunk_size > 0 THEN Min(chunk_size, W - i) ELSE 0]>>
             \o Windows(i + step, W, chunk_size, step)

\* windows that advance by chunk_size, the overlap forgotten
chunk_text_NoOverlap(text, chunk_size, overlap) ==
    IF text.chars = 0 \/ text.words = 0
    THEN [ok |-> FALSE, chunks |-> <<>>, err |-> "Cannot chunk empty text"]
    ELSE [ok |-> TRUE,
          chunks |-> Windows(0, text.words, chunk_size, chunk_size),
          err |-> ""]

\* chunk_text: windows of chunk_size words starting every chunk_size - overlap
\* words; range() raises on a step of 0 and is empty on a negative step
chunk_text(text, chunk_size, overlap) ==
    LET step == chunk_size - overlap
        W == text.words
    IN  IF text.chars = 0 \/ W = 0
        THEN [ok |-> FALSE, chunks |-> <<>>, err |-> "Cannot chunk empty text"]
        ELSE IF step = 0
        THEN [ok |-> FALSE, chunks |-> <<>>, err |-> "range() arg 3 must not be zero"]
        ELSE IF step < 0
        THEN [ok |-> TRUE, chunks |-> <<>>, err |-> ""]
        ELSE [ok |-> TRUE,
              chunks |-> SelectSeq(Windows(0, W, chunk_size, step),
                                   LAMBDA c : c.len > 0),
              err |-> ""]

\* what the embedding backend answers: one vector per text, one fewer, or an error
EmbedOutcomes == {"ok", "short", "error"}

\* create_embeddings: an embedding is named by the position of its text
create_embeddings(texts, outcome) ==
    LET valid_texts == SelectSeq(texts, LAMBDA c : c.len > 0)
        n == IF outcome = "short" THEN Len(valid_texts) - 1 ELSE Len(valid_texts)
    IN  IF texts = <<>>
        THEN [ok |-> FALSE, embeddings |-> <<>>,
              err |-> "Cannot create embeddings for empty text list"]
        ELSE IF valid_texts = <<>>
        THEN [ok |-> FALSE, embeddings |-> <<>>, err |-> "All text chunks are empty"]
        ELSE IF outcome = "error"
        THEN [ok |-> FALSE, embeddings |-> <<>>, err |-> "Failed to create embeddings"]
        ELSE IF n = 0
        THEN [ok |-> FALSE, embeddings |-> <<>>,
              err |-> "Failed to create embeddings: no embeddings"]
        ELSE [ok |-> TRUE, embeddings |-> [k \in 1..n |-> k], err |-> ""]

\* store_in_pinecone, lines 153-170: zip(chunks, embeddings) into vectors
\* with id f"{namespace}_{i}"
\* an id made of the chunk index alone, the same prefix for every document
VectorId_IndexOnly(ns, i) == <<0, i>>

VectorId(ns, i) == <<ns, i>>

BuildVectors(chunks, embeddings, ns) ==
    [k \in 1..Min(Len(chunks), Len(embeddings)) |->
        [ns |-> ns, id |-> VectorId(ns, k - 1), text |-> chunks[k]]]

\* index.upsert(vectors=batch, namespace): idempotent by id
Upsert(idx, batch) ==
    LET new == {batch[k] : k \in 1..Len(batch)}
    IN  {v \in idx : ~\E b \in new : b.ns = v.ns /\ b.id = v.id} \cup new

\* a delete that removes nothing (delete_all left out)
DeleteNamespace_Nothing(idx, ns) == idx

\* index.delete(delete_all=True, namespace)
DeleteNamespace(idx, ns) == {v \in idx : v.ns # ns}

(* ------------------------------ record store --------------------------- *)
\* a Document model whose `processed` field defaults to True
NewDocument_ProcessedByDefault(id, file_type, pid) ==
    [id |-> id, file_type |-> file_type, cloudinary_public_id |-> pid,
     processed |-> TRUE, processed_at |-> 0, chunk_count |-> 0,
     pinecone_namespace |-> 0]

\* Document.objects.create(...): the fields the handlers read, with the
\* model's defaults for the others
NewDocument(id, file_type, pid) ==
    [id |-> id, file_type |-> file_type, cloudinary_public_id |-> pid,
     processed |-> FALSE, processed_at |-> 0, chunk_count |-> 0,
     pinecone_namespace |-> 0]

\* document.delete(): on_delete=CASCADE on DocumentChunk.document,
\* ChatSession.document and ChatMessage.session
CascadeDocuments(docs, id) == {d \in docs : d.id # id}
CascadeChunks(rows, id) == {c \in rows : c.document # id}
CascadeSessions(sess, id) == {x \in sess : x.document # id}
CascadeMessages(msgs, sess, id) ==
    [x \in {y \in DOMAIN msgs : \A z \in sess : z.id = y => z.document # id}
        |-> msgs[x]]

IdleJob ==
    [pc |-> "idle", kind |-> "none", file_type |-> "", text |-> NoText,
     ns |-> 0, pid |-> 0, uploaded |-> FALSE, doc |-> 0,
     chunks |-> <<>>, embeddings |-> <<>>, ids |-> <<>>, next |-> 0,
     embed_called |-> FALSE, chunk_size |-> 0, overlap |-> 0,
     status |-> 0, err |-> "", trail |-> <<>>, faults |-> {}]

NoDelete ==
    [doc |-> 0, found |-> FALSE, attempted |-> {}, succeeded |-> {},
     reported |-> {}, status |-> 0, rich |-> FALSE]

NoTurn ==
    [session |-> 0, doc |-> 0, status |-> 0, prior |-> <<>>, history |-> <<>>,
     retrieved |-> {}, match_ns |-> {}, ns_empty |-> FALSE,
     retrieval_faults |-> {}, chat_called |-> FALSE, gen_failed |-> FALSE,
     result |-> <<>>, saved |-> 0]

Init ==
    /\ cloud = {}
    /\ destroyCalls = {}
    /\ index = {}
    /\ documents = {}
    /\ chunkRows = {}
    /\ sessions = {}
    /\ messages = <<>>
    /\ jobs = [j \in JobIds |-> IdleJob]
    /\ lastRun = IdleJob
    /\ nextId = [doc |-> 1, file |-> 1, session |-> 1]
    /\ lastDelete = NoDelete
    /\ lastTurn = NoTurn

(* ------------------------- upload_document (views) --------------------- *)
Stage(job, pc) == [job EXCEPT !.pc = pc, !.trail = Append(@, pc)]

FailJob(job, err, fault) ==
    [Stage(job, "failed") EXCEPT
        !.err = err,
        !.faults = @ \cup fault,
        !.status = IF job.kind = "upload" THEN 500 ELSE 0]

\* the run in slot j is over: its response is out and the slot is free
End(j, job) ==
    /\ jobs' = [jobs EXCEPT ![j] = IdleJob]
    /\ lastRun' = job

\* An exception leaving process_document or the transaction block.  Inside
\* upload_document it rolls the transaction back, runs the inner handler
\* (delete_file(public_id), re-raise) and the outer one (status 500); a
\* direct caller of process_document just sees the exception.
Raise(j, err, fault, net_ok) ==
    /\ End(j, FailJob(jobs[j], err, fault))
    /\ IF jobs[j].kind = "upload"
       THEN /\ cloud' = delete_file_store(cloud, jobs[j].pid, net_ok)
            /\ destroyCalls' = destroyCalls \cup
                   {[public_id |-> jobs[j].pid, resource_type |-> "raw"]}
       ELSE UNCHANGED <<cloud, destroyCalls>>

\* the runs are told apart by their slot only: a new run takes the first free one
FreeSlot(j) == jobs[j].pc = "idle" /\ \A k \in JobIds : k < j => jobs[k].pc # "idle"

\* The request up to the call of process_document (lines 24-63).
\* has_file: 'file' in request.FILES; up_ok: cloudinary.uploader.upload
\* answered; db_ok: Document.objects.create / save went through; net_ok: the
\* destroy call of a compensating delete_file answered.
upload_document(j, has_file, file, up_ok, db_ok, net_ok) ==
    /\ FreeSlot(j)
    /\ nextId.file <= MaxUploads
    /\ LET job == [IdleJob EXCEPT !.kind = "upload", !.trail = <<"received">>]
           sent == [job EXCEPT !.file_type = file.ext, !.text = file.text]
           pid == nextId.file
           result == UploadFileResult(pid, file.ext)
           asset == [public_id |-> pid, resource_type |-> get_resource_type(file.ext)]
           reject(code, err, fault) ==
               /\ End(j, [Stage(job, "failed") EXCEPT
                             !.status = code, !.err = err, !.faults = fault])
               /\ UNCHANGED <<cloud, destroyCalls, nextId>>
       IN  IF ~has_file
           THEN reject(400, "No file provided", {})
           ELSE IF file.size > MAX_UPLOAD_SIZE
           THEN reject(400, "File too large", {})
           ELSE IF file.ext \notin ALLOWED_FILE_TYPES
           THEN reject(400, "File type not allowed", {})
           ELSE IF ~up_ok
           THEN reject(500, "Failed to upload to Cloudinary", {"upload"})
           ELSE IF Len(result) # UNPACK_TARGETS
           THEN \* ValueError at line 45, before the inner try: outer handler only
                /\ End(j, [Stage(sent, "failed") EXCEPT
                              !.status = 500, !.uploaded = TRUE, !.pid = pid,
                              !.err = "too many values to unpack"])
                /\ cloud' = cloud \cup {asset}
                /\ nextId' = [nextId EXCEPT !.file = @ + 1]
                /\ UNCHANGED destroyCalls
           ELSE IF ~db_ok
           THEN \* Document.objects.create raises inside the inner try
                /\ End(j, [Stage(sent, "failed") EXCEPT
                              !.status = 500, !.uploaded = TRUE, !.pid = result[2],
                              !.err = "database error", !.faults = {"database"}])
                /\ cloud' = delete_file_store(cloud \cup {asset}, result[2], net_ok)
                /\ destroyCalls' = destroyCalls \cup
                       {[public_id |-> result[2], resource_type |-> "raw"]}
                /\ nextId' = [nextId EXCEPT !.file = @ + 1]
           ELSE /\ nextId.doc <= MaxDocs
                /\ jobs' = [jobs EXCEPT ![j] =
                       [sent EXCEPT !.uploaded = TRUE, !.pid = result[2],
                                    !.doc = nextId.doc, !.ns = nextId.doc,
                                    !.pc = "received"]]
                /\ cloud' = cloud \cup {asset}
                /\ nextId' = [nextId EXCEPT !.file = @ + 1, !.doc = @ + 1]
                /\ UNCHANGED <<destroyCalls, lastRun>>
    /\ UNCHANGED <<index, documents, chunkRows, sessions, messages,
                   lastDelete, lastTurn>>

(* ------------------- process_document (services), by step -------------- *)
\* a caller hands process_document a file's content, its type and a namespace
process_document(j, file_type, text, ns) ==
    /\ FreeSlot(j)
    /\ jobs' = [jobs EXCEPT ![j] =
           [IdleJob EXCEPT !.kind = "ingest", !.file_type = file_type,
                           !.text = text, !.ns = ns, !.pc = "received",
                           !.trail = <<"received">>]]
    /\ UNCHANGED <<cloud, destroyCalls, index, documents, chunkRows, sessions,
                   messages, lastRun, nextId, lastDelete, lastTurn>>

\* 1. extract_text
Extract(j, wellformed, net_ok) ==
    /\ jobs[j].pc = "received"
    /\ LET r == extract_text(jobs[j].file_type, jobs[j].text, wellformed)
       IN  IF r.ok
           THEN /\ jobs' = [jobs EXCEPT ![j] =
                       [Stage(@, "extracted") EXCEPT !.text = r.text]]
                /\ UNCHANGED <<cloud, destroyCalls, lastRun>>
           ELSE Raise(j, r.err, IF wellformed THEN {} ELSE {"extract"}, net_ok)
    /\ UNCHANGED <<index, documents, chunkRows, sessions, messages, nextId,
                   lastDelete, lastTurn>>

INSUFFICIENT == "Document contains insufficient text content"

\* a length check that lets every non-empty text through
InsufficientText_EmptyOnly(text) == text.chars = 0

\* line 195: not text or len(text.strip()) < 10
InsufficientText(text) == text.chars = 0 \/ text.chars < MIN_TEXT_CHARS

\* the length check of line 195, then 2. chunk_text with its defaults
Chunk(j, net_ok) ==
    /\ jobs[j].pc = "extracted"
    /\ LET c == chunk_text(jobs[j].text, CHUNK_SIZE, CHUNK_OVERLAP)
       IN  IF InsufficientText(jobs[j].text)
           THEN Raise(j, INSUFFICIENT, {}, net_ok)
           ELSE IF c.ok
           THEN /\ jobs' = [jobs EXCEPT ![j] =
                       [Stage(@, "chunked") EXCEPT !.chunks = c.chunks]]
                /\ UNCHANGED <<cloud, destroyCalls, lastRun>>
           ELSE Raise(j, c.err, {}, net_ok)
    /\ UNCHANGED <<index, documents, chunkRows, sessions, messages, nextId,
                   lastDelete, lastTurn>>

\* chunk_text called on its own with the caller's parameters
chunk_text_call(j, text, chunk_size, overlap) ==
    /\ FreeSlot(j)
    /\ LET c == chunk_text(text, chunk_size, overlap)
           job == [IdleJob EXCEPT !.kind = "chunk_text", !.text = text,
                                  !.chunk_size = chunk_size, !.overlap = overlap,
                                  !.chunks = c.chunks, !.err = c.err]
       IN  End(j, Stage(job, IF c.ok THEN "returned" ELSE "failed"))
    /\ UNCHANGED <<cloud, destroyCalls, index, documents, chunkRows, sessions,
                   messages, nextId, lastDelete, lastTurn>>

\* 3. create_embeddings
Embed(j, outcome, net_ok) ==
    /\ jobs[j].pc = "chunked"
    /\ LET e == create_embeddings(jobs[j].chunks, outcome)
       IN  IF e.ok
           THEN /\ jobs' = [jobs EXCEPT ![j] =
                       [Stage(@, "embedded") EXCEPT
                           !.embeddings = e.embeddings,
                           !.embed_called = TRUE,
                           !.faults = @ \cup (IF outcome = "ok" THEN {} ELSE {"embed"})]]
                /\ UNCHANGED <<cloud, destroyCalls, lastRun>>
           ELSE /\ End(j, [FailJob(jobs[j], e.err, {"embed"})
                              EXCEPT !.embed_called = TRUE])
                /\ IF jobs[j].kind = "upload"
                   THEN /\ cloud' = delete_file_store(cloud, jobs[j].pid, net_ok)
                        /\ destroyCalls' = destroyCalls \cup
                               {[public_id |-> jobs[j].pid, resource_type |-> "raw"]}
                   ELSE UNCHANGED <<cloud, destroyCalls>>
    /\ UNCHANGED <<index, documents, chunkRows, sessions, messages, nextId,
                   lastDelete, lastTurn>>

\* 4. store_in_pinecone: one index.upsert per batch of BATCH_SIZE vectors;
\* a failing upsert raises with the earlier batches left in the index
UpsertBatch(j, up_ok, net_ok) ==
    /\ jobs[j].pc = "embedded"
    /\ LET vectors == BuildVectors(jobs[j].chunks, jobs[j].embeddings, jobs[j].ns)
           m == Len(vectors)
           i == jobs[j].next
           batch == SubSeq(vectors, i + 1, Min(i + BATCH_SIZE, m))
           ids == [k \in 1..m |-> vectors[k].id]
       IN  IF m = 0
           THEN /\ jobs' = [jobs EXCEPT ![j] = [Stage(@, "indexed") EXCEPT !.ids = ids]]
                /\ UNCHANGED <<index, cloud, destroyCalls, lastRun>>
           ELSE IF up_ok
           THEN /\ index' = Upsert(index, batch)
                /\ jobs' = [jobs EXCEPT ![j] =
                       IF i + BATCH_SIZE >= m
                       THEN [Stage(@, "indexed") EXCEPT
                                !.ids = ids, !.next = i + BATCH_SIZE]
                       ELSE [@ EXCEPT !.next = i + BATCH_SIZE]]
                /\ UNCHANGED <<cloud, destroyCalls, lastRun>>
           ELSE /\ Raise(j, "Pinecone storage failed", {"upsert"}, net_ok)
                /\ UNCHANGED index
    /\ UNCHANGED <<documents, chunkRows, sessions, messages, nextId,
                   lastDelete, lastTurn>>

\* DocumentChunk rows of lines 74-80: zip(chunks, pinecone_ids)
ChunkRowsOf(doc, chunks, ids) ==
    {[document |-> doc, chunk_index |-> k - 1, text_content |-> chunks[k],
      pinecone_id |-> ids[k]] : k \in 1..Min(Len(chunks), Len(ids))}

\* process_document returns (chunks, pinecone_ids).  upload_document then
\* writes the chunk rows, marks the document processed and commits (74-97).
Return(j, db_ok, net_ok) ==
    /\ jobs[j].pc = "indexed"
    /\ IF jobs[j].kind = "ingest"
       THEN /\ End(j, Stage(jobs[j], "returned"))
            /\ UNCHANGED <<cloud, destroyCalls, documents, chunkRows>>
       ELSE LET rows == ChunkRowsOf(jobs[j].doc, jobs[j].chunks, jobs[j].ids)
                doc == [NewDocument(jobs[j].doc, jobs[j].file_type, jobs[j].pid)
                           EXCEPT !.pinecone_namespace = jobs[j].doc,
                                  !.processed = TRUE,
                                  !.processed_at = 1,
                                  !.chunk_count = Len(jobs[j].chunks)]
                unique == \A r \in rows : \A c \in chunkRows :
                              c.pinecone_id # r.pinecone_id
            IN  IF db_ok /\ unique
                THEN /\ documents' = documents \cup {doc}
                     /\ chunkRows' = chunkRows \cup rows
                     /\ End(j, [Stage(jobs[j], "committed") EXCEPT !.status = 200])
                     /\ UNCHANGED <<cloud, destroyCalls>>
                ELSE /\ Raise(j, "database error", {"database"}, net_ok)
                     /\ UNCHANGED <<documents, chunkRows>>
    /\ UNCHANGED <<index, sessions, messages, nextId, lastDelete, lastTurn>>

(* ------------------------------ admin site ----------------------------- *)
\* DocumentAdmin: a Document row added by hand, naming a stored file or none
admin_add_document(pid) ==
    /\ nextId.doc <= MaxDocs
    /\ documents' = documents \cup {NewDocument(nextId.doc, "pdf", pid)}
    /\ nextId' = [nextId EXCEPT !.doc = @ + 1]
    /\ UNCHANGED <<cloud, destroyCalls, index, chunkRows, sessions, messages,
                   jobs, lastRun, lastDelete, lastTurn>>

\* DocumentChunkAdmin: the next chunk row of a document, added by hand
admin_add_chunk(d) ==
    LET mine == {c \in chunkRows : c.document = d}
        row == [document |-> d, chunk_index |-> Cardinality(mine),
                text_content |-> [start |-> 0, len |-> 1],
                pinecone_id |-> VectorId(d, Cardinality(mine))]
    IN  /\ \E doc \in documents : doc.id = d
        /\ Cardinality(mine) < MaxAdminChunks
        /\ \A c \in chunkRows : c.pinecone_id # row.pinecone_id
        /\ chunkRows' = chunkRows \cup {row}
        /\ UNCHANGED <<cloud, destroyCalls, index, documents, sessions, messages,
                       jobs, lastRun, nextId, lastDelete, lastTurn>>

(* ----------------------------- document_detail ------------------------- *)
\* get or create the chat session of a document
document_detail(d) ==
    /\ \E doc \in documents : doc.id = d
    /\ IF \E x \in sessions : x.document = d
       THEN UNCHANGED <<sessions, messages, nextId>>
       ELSE /\ sessions' = sessions \cup {[id |-> nextId.session, document |-> d]}
            /\ messages' = (nextId.session :> <<>>) @@ messages
            /\ nextId' = [nextId EXCEPT !.session = @ + 1]
    /\ UNCHANGED <<cloud, destroyCalls, index, documents, chunkRows, jobs,
                   lastRun, lastDelete, lastTurn>>

(* ------------------------------ ChatMessage ---------------------------- *)
\* ChatMessage.objects.create(session, role, content): `choices` is not
\* enforced on save, so a row may carry any role of up to ten characters
NewMessage(rows, role) == [role |-> role, created_at |-> Len(rows) + 1]

KnownRoles == {"user", "assistant"}

\* a row written by another caller of the ORM, with a role of its choosing
add_message(sid, role) ==
    /\ sid \in DOMAIN messages
    /\ Len(messages[sid]) < MaxMsgs
    /\ Cardinality({k \in 1..Len(messages[sid]) :
                       messages[sid][k].role \notin KnownRoles}) < MaxForeignMsgs
    /\ messages' = [messages EXCEPT ![sid] = Append(@, NewMessage(@, role))]
    /\ UNCHANGED <<cloud, destroyCalls, index, documents, chunkRows, sessions,
                   jobs, lastRun, nextId, lastDelete, lastTurn>>

(* ------------------------------- ChatService --------------------------- *)
NO_CONTEXT_ANSWER == "I couldn't find relevant information in the document to answer your question."
APOLOGY == "Sorry, I encountered an error"
ANSWER == "response.text"

\* a query that ranks the whole index, the namespace argument dropped
TopK_AnyNamespace(idx, ns, top_k) ==
    {P \in SUBSET idx : Cardinality(P) = Min(top_k, Cardinality(idx))}

\* index.query(vector, namespace, top_k): the top_k best matches of the
\* namespace, whichever the similarity makes them
TopK(idx, ns, top_k) ==
    LET mine == {v \in idx : v.ns = ns}
    IN  {P \in SUBSET mine : Cardinality(P) = Min(top_k, Cardinality(mine))}

\* a retrieve_context whose handler re-raises instead of returning []
retrieve_context_Reraise(matches, embed_ok, query_ok) ==
    IF embed_ok /\ query_ok
    THEN [raised |-> FALSE, chunks |-> {v.text : v \in matches}]
    ELSE [raised |-> TRUE, chunks |-> {}]

\* retrieve_context: embed the query, query the index, return the texts of the
\* matches; any exception is caught and gives the empty list
retrieve_context(matches, embed_ok, query_ok) ==
    IF embed_ok /\ query_ok
    THEN [raised |-> FALSE, chunks |-> {v.text : v \in matches}]
    ELSE [raised |-> FALSE, chunks |-> {}]

\* a generate_response without the early return on an empty context
generate_response_NoSkip(matches, embed_ok, query_ok, gen_ok) ==
    LET context_chunks == retrieve_context(matches, embed_ok, query_ok).chunks
    IN  IF gen_ok
        THEN [result |-> <<ANSWER, context_chunks>>, chat_called |-> TRUE,
              retrieved |-> context_chunks]
        ELSE [result |-> <<APOLOGY, {}>>, chat_called |-> TRUE,
              retrieved |-> context_chunks]

\* generate_response returns the pair (answer text, context chunks);
\* chat_called records whether cohere_client.chat was invoked.  Its handler
\* (lines 304-306) answers any exception raised in its body with the apology.
generate_response(matches, embed_ok, query_ok, gen_ok) ==
    LET r == retrieve_context(matches, embed_ok, query_ok)
        context_chunks == r.chunks
    IN  IF r.raised
        THEN [result |-> <<APOLOGY, {}>>, chat_called |-> FALSE, retrieved |-> {}]
        ELSE IF context_chunks = {}
        THEN [result |-> <<NO_CONTEXT_ANSWER, {}>>, chat_called |-> FALSE,
              retrieved |-> context_chunks]
        ELSE IF gen_ok
        THEN [result |-> <<ANSWER, context_chunks>>, chat_called |-> TRUE,
              retrieved |-> context_chunks]
        ELSE [result |-> <<APOLOGY, {}>>, chat_called |-> TRUE,
              retrieved |-> context_chunks]

(* ------------------------------ send_message --------------------------- *)
\* session.messages.filter(created_at__lt=...).order_by('created_at')[:10]
previous_messages(rows, before) ==
    LET earlier == SelectSeq(rows, LAMBDA r : r.created_at < before)
    IN  SubSeq(earlier, 1, Min(HISTORY_LIMIT, Len(earlier)))

\* role_map.get(msg.role, 'USER')
role_map(role) ==
    IF role = "user" THEN "USER"
    ELSE IF role = "assistant" THEN "CHATBOT"
    ELSE "USER"

chat_history(previous) ==
    [k \in 1..Len(previous) |->
        [role |-> role_map(previous[k].role), message |-> previous[k].created_at]]

\* the document a session belongs to (session.document.id), 0 if no session
DocumentOf(sid) ==
    IF \E x \in sessions : x.id = sid
    THEN (CHOOSE x \in sessions : x.id = sid).document
    ELSE 0

\* text_ok: the stripped message is not empty; svc_ok: ChatService() was
\* built; matches: what index.query answers for namespace str(document.id);
\* db_ok: the assistant row was saved
send_message(sid, text_ok, svc_ok, matches, embed_ok, query_ok, gen_ok, db_ok) ==
    /\ matches \in TopK(index, DocumentOf(sid), TOP_K)
    /\ IF sid \notin DOMAIN messages
       THEN /\ lastTurn' = [NoTurn EXCEPT !.session = sid, !.status = 500]
            /\ UNCHANGED messages
       ELSE IF ~text_ok
       THEN /\ lastTurn' = [NoTurn EXCEPT !.session = sid, !.status = 400,
                                          !.prior = messages[sid]]
            /\ UNCHANGED messages
       ELSE LET rows == messages[sid]
                user_msg == NewMessage(rows, "user")
                history == chat_history(previous_messages(Append(rows, user_msg),
                                                          user_msg.created_at))
                g == generate_response(matches, embed_ok, query_ok, gen_ok)
                assistant_msg == NewMessage(Append(rows, user_msg), "assistant")
                turn == [NoTurn EXCEPT !.session = sid, !.prior = rows,
                                       !.doc = DocumentOf(sid),
                                       !.history = history]
                \* the namespaces the vectors behind the context came from
                match_ns == IF g.retrieved = {} THEN {} ELSE {v.ns : v \in matches}
                \* the call of retrieve_context that failed, if one did
                retrieval_faults == IF ~embed_ok THEN {"embed"}
                                    ELSE IF ~query_ok THEN {"query"} ELSE {}
            IN  /\ Len(rows) <= MaxMsgs
                /\ IF ~svc_ok
                   THEN /\ messages' = [messages EXCEPT ![sid] = Append(rows, user_msg)]
                        /\ lastTurn' = [turn EXCEPT !.status = 500, !.saved = 1]
                   ELSE IF ~db_ok
                   THEN /\ messages' = [messages EXCEPT ![sid] = Append(rows, user_msg)]
                        /\ lastTurn' = [turn EXCEPT
                               !.status = 500, !.saved = 1,
                               !.retrieved = g.retrieved,
                               !.match_ns = match_ns,
                               !.ns_empty = (matches = {}),
                               !.retrieval_faults = retrieval_faults,
                               !.chat_called = g.chat_called,
                               !.gen_failed = g.chat_called /\ ~gen_ok,
                               !.result = g.result]
                   ELSE /\ messages' = [messages EXCEPT ![sid] =
                               Append(Append(rows, user_msg), assistant_msg)]
                        /\ lastTurn' = [turn EXCEPT
                               !.status = 200, !.saved = 2,
                               !.retrieved = g.retrieved,
                               !.match_ns = match_ns,
                               !.ns_empty = (matches = {}),
                               !.retrieval_faults = retrieval_faults,
                               !.chat_called = g.chat_called,
                               !.gen_failed = g.chat_called /\ ~gen_ok,
                               !.result = g.result]
    /\ UNCHANGED <<cloud, destroyCalls, index, documents, chunkRows, sessions,
                   jobs, lastRun, nextId, lastDelete>>

(* ----------------------------- delete_document ------------------------- *)
Stores == {"vectors", "file", "record"}

\* svc_ok: DocumentProcessor() was built; vec_ok: index.delete answered;
\* net_ok: the destroy call answered; db_ok: document.delete() went through
delete_document(d, svc_ok, vec_ok, net_ok, db_ok) ==
    LET found == \E doc \in documents : doc.id = d
        document == CHOOSE doc \in documents : doc.id = d
        pid == document.cloudinary_public_id
        file_ok == delete_file_result(cloud, pid, net_ok)
        \* the document has chunk rows, a session with messages, and vectors
        rich == /\ \E c \in chunkRows : c.document = d
                /\ \E x \in sessions : x.document = d /\ messages[x.id] # <<>>
                /\ \E v \in index : v.ns = d
        req == [NoDelete EXCEPT !.doc = d, !.found = found]
    IN  /\ IF ~found
           THEN \* Http404 is caught by the handler's own except: status 500
                /\ lastDelete' = [req EXCEPT !.status = 500]
                /\ UNCHANGED <<index, cloud, destroyCalls, documents, chunkRows,
                               sessions, messages>>
           ELSE IF ~svc_ok
           THEN /\ lastDelete' = [req EXCEPT !.status = 500, !.rich = rich]
                /\ UNCHANGED <<index, cloud, destroyCalls, documents, chunkRows,
                               sessions, messages>>
           ELSE IF ~vec_ok
           THEN \* delete_document_vectors re-raises: nothing else is tried
                /\ lastDelete' = [req EXCEPT !.status = 500, !.rich = rich,
                                             !.attempted = {"vectors"}]
                /\ UNCHANGED <<index, cloud, destroyCalls, documents, chunkRows,
                               sessions, messages>>
           ELSE /\ index' = DeleteNamespace(index, d)
                /\ cloud' = delete_file_store(cloud, pid, net_ok)
                /\ destroyCalls' = destroyCalls \cup
                       {[public_id |-> pid, resource_type |-> "raw"]}
                /\ IF db_ok
                   THEN /\ documents' = CascadeDocuments(documents, d)
                        /\ chunkRows' = CascadeChunks(chunkRows, d)
                        /\ sessions' = CascadeSessions(sessions, d)
                        /\ messages' = CascadeMessages(messages, sessions, d)
                        /\ lastDelete' = [req EXCEPT
                               !.status = 200, !.rich = rich, !.attempted = Stores,
                               !.succeeded = {"vectors", "record"} \cup
                                   (IF file_ok THEN {"file"} ELSE {})]
                   ELSE /\ lastDelete' = [req EXCEPT
                               !.status = 500, !.rich = rich, !.attempted = Stores,
                               !.succeeded = {"vectors"} \cup
                                   (IF file_ok THEN {"file"} ELSE {})]
                        /\ UNCHANGED <<documents, chunkRows, sessions, messages>>
        /\ UNCHANGED <<jobs, lastRun, nextId, lastTurn>>

(* ---------------------------- specifications -------------------------- *)
SessionIds == 1..MaxDocs
DocIds == 1..MaxDocs
PublicIds == 0..MaxUploads
Ok == {TRUE}

\* upload requests with the files F; O: how the collaborators' calls can end
Uploads(F, O) ==
    \E j \in JobIds, has_file \in BOOLEAN, file \in F, up_ok \in BOOLEAN,
       db_ok \in O, net_ok \in O :
        upload_document(j, has_file, file, up_ok, db_ok, net_ok)

\* the steps of the runs in the slots J, fed files of the types F with the
\* texts T under the namespaces N; O: how the collaborators' calls can end
Ingestions(J, F, T, N, O) ==
    \/ \E j \in J, file_type \in F, text \in T, ns \in N :
          process_document(j, file_type, text, ns)
    \/ \E j \in J, wellformed \in O, net_ok \in O : Extract(j, wellformed, net_ok)
    \/ \E j \in J, net_ok \in O : Chunk(j, net_ok)
    \/ \E j \in J, net_ok \in O,
          outcome \in IF FALSE \in O THEN EmbedOutcomes ELSE {"ok"} :
          Embed(j, outcome, net_ok)
    \/ \E j \in J, up_ok \in O, net_ok \in O : UpsertBatch(j, up_ok, net_ok)
    \/ \E j \in J, db_ok \in O, net_ok \in O : Return(j, db_ok, net_ok)

\* a document registered by hand names a stored file or none (0)
AdminDocuments ==
    \E pid \in PublicIds :
        /\ pid = 0 \/ \E a \in cloud : a.public_id = pid
        /\ admin_add_document(pid)

Deletes(D) ==
    \E d \in D, svc_ok \in BOOLEAN, vec_ok \in BOOLEAN,
       net_ok \in BOOLEAN, db_ok \in BOOLEAN :
        delete_document(d, svc_ok, vec_ok, net_ok, db_ok)

\* chat turns in the sessions S; O: how ChatService() and the save can end
Turns(S, O) ==
    \E sid \in S, text_ok \in BOOLEAN, svc_ok \in O,
       embed_ok \in BOOLEAN, query_ok \in BOOLEAN, gen_ok \in BOOLEAN,
       db_ok \in O :
      \E matches \in TopK(index, DocumentOf(sid), TOP_K) :
        send_message(sid, text_ok, svc_ok, matches, embed_ok, query_ok, gen_ok, db_ok)

\* uploads, with documents registered and deleted by hand
NextUpload ==
    \/ Uploads(Files, BOOLEAN)
    \/ AdminDocuments
    \/ Deletes({1})

SpecUpload == Init /\ [][NextUpload]_vars

\* direct ingestions into one namespace, up to MaxJobs at a time
NextIngest ==
    Ingestions(JobIds, {"pdf", "png"}, {ShortText, TwoBatchText}, {1}, BOOLEAN)

SpecIngest == Init /\ [][NextIngest]_vars

\* direct ingestions of texts around the length check of line 195
NextShort ==
    Ingestions(JobIds, {"pdf", "png"}, {NoText, ShortText, OneChunkText}, {1},
               BOOLEAN)

SpecShort == Init /\ [][NextShort]_vars

\* several documents with their sessions; ingestions under every namespace,
\* one chat turn per session, deletions
NextIsolation ==
    \/ admin_add_document(0)
    \/ \E d \in DocIds : document_detail(d)
    \/ Ingestions({1}, {"pdf"}, {OneChunkText}, Namespaces, Ok)
    \/ \E sid \in SessionIds :
         /\ sid \in DOMAIN messages
         /\ messages[sid] = <<>>
         /\ \E matches \in TopK(index, DocumentOf(sid), TOP_K) :
               send_message(sid, TRUE, TRUE, matches, TRUE, TRUE, TRUE, TRUE)
    \/ delete_document(1, TRUE, TRUE, TRUE, TRUE)

SpecIsolation == Init /\ [][NextIsolation]_vars

\* chat turns on one document whose retrieval may fail at either call
NextRetrieval ==
    \/ admin_add_document(0)
    \/ document_detail(1)
    \/ Ingestions({1}, {"pdf"}, {OneChunkText}, {1}, Ok)
    \/ \E embed_ok \in BOOLEAN, query_ok \in BOOLEAN, gen_ok \in BOOLEAN :
         \E matches \in TopK(index, DocumentOf(1), TOP_K) :
           send_message(1, TRUE, TRUE, matches, embed_ok, query_ok, gen_ok, TRUE)

SpecRetrieval == Init /\ [][NextRetrieval]_vars

\* the file ingested for a document: two upsert batches for document 1
TextOf(ns) == IF ns = 1 THEN TwoBatchText ELSE IF ns = 2 THEN FourChunkText ELSE OneChunkText

\* ingestions of different documents side by side, each under its own
\* namespace, with upserts of document 1 that may fail
NextConcurrent ==
    \/ \E j \in JobIds, ns \in Namespaces :
         /\ \A k \in JobIds : jobs[k].pc = "idle" \/ jobs[k].ns # ns
         /\ process_document(j, "pdf", TextOf(ns), ns)
    \/ \E j \in JobIds : Extract(j, TRUE, TRUE)
    \/ \E j \in JobIds : Chunk(j, TRUE)
    \/ \E j \in JobIds : Embed(j, "ok", TRUE)
    \/ \E j \in JobIds, up_ok \in BOOLEAN :
         /\ up_ok \/ jobs[j].ns = 1
         /\ UpsertBatch(j, up_ok, TRUE)
    \/ \E j \in JobIds : Return(j, TRUE, TRUE)

SpecConcurrent == Init /\ [][NextConcurrent]_vars

\* chat turns of one session in which ChatService() or the save may fail
NextTurnErrors ==
    \/ admin_add_document(0)
    \/ document_detail(1)
    \/ Turns({1}, BOOLEAN)

SpecTurnErrors == Init /\ [][NextTurnErrors]_vars

\* chunk_text called on its own, once: it reads and writes no state, so
\* one call tells nothing about the next
NextChunker ==
    /\ lastRun.kind = "none"
    /\ \E j \in JobIds, text \in ChunkerTexts, p \in ChunkParams :
          chunk_text_call(j, text, p.chunk_size, p.overlap)

SpecChunker == Init /\ [][NextChunker]_vars

\* a document with chunk rows, a session, messages and vectors, and its
\* deletion
NextDelete ==
    \/ admin_add_document(0)
    \/ admin_add_chunk(1)
    \/ document_detail(1)
    \/ add_message(1, "system")
    \/ Ingestions({1}, {"pdf"}, {OneChunkText}, {1}, Ok)
    \/ Deletes({1})

SpecDelete == Init /\ [][NextDelete]_vars

\* one session: its turns, with rows of other roles written in between
NextHistory ==
    \/ admin_add_document(0)
    \/ document_detail(1)
    \/ add_message(1, "system")
    \/ Ingestions({1}, {"pdf"}, {OneChunkText}, {1}, Ok)
    \/ Turns({1}, Ok)

SpecHistory == Init /\ [][NextHistory]_vars

\* one session: its turns over an index that is empty, partly or fully filled
NextChat ==
    \/ admin_add_document(0)
    \/ document_detail(1)
    \/ Ingestions({1}, {"pdf"}, {FourChunkText}, {1}, BOOLEAN)
    \/ Turns(SessionIds, Ok)

SpecChat == Init /\ [][NextChat]_vars

Next ==
    \/ Uploads(Files, BOOLEAN)
    \/ Ingestions(JobIds, FileTypes, Texts, Namespaces, BOOLEAN)
    \/ \E j \in JobIds, text \in ChunkerTexts, p \in ChunkParams :
          chunk_text_call(j, text, p.chunk_size, p.overlap)
    \/ AdminDocuments
    \/ \E d \in DocIds : admin_add_chunk(d)
    \/ \E d \in DocIds : document_detail(d)
    \/ \E sid \in SessionIds, role \in KnownRoles \cup {"system"} : add_message(sid, role)
    \/ Turns(SessionIds, BOOLEAN)
    \/ Deletes(DocIds)

Spec == Init /\ [][Next]_vars

(* -------------------------------- claims ------------------------------- *)
Stages == <<"received", "extracted", "chunked", "embedded", "indexed", "committed">>

\* C1: an upload_document run that ended in an error after upload_file had
\* stored the file has issued delete_file for that file's storage id.
C1_CompensatingDelete ==
    (lastRun.kind = "upload" /\ lastRun.pc = "failed" /\ lastRun.uploaded)
        => \E c \in destroyCalls : c.public_id = lastRun.pid

\* C2: after a run that failed with at least one batch upserted, no vector
\* is left under the run's namespace.
C2_NoVectorsAfterFailure ==
    (lastRun.pc = "failed" /\ lastRun.next > 0)
        => \A v \in index : v.ns # lastRun.ns

C4_UploadCommits ==
    (/\ lastRun.kind = "upload"
     /\ lastRun.uploaded
     /\ lastRun.file_type \in ALLOWED_FILE_TYPES
     /\ lastRun.text.chars >= MIN_TEXT_CHARS
     /\ lastRun.faults = {})
        => /\ lastRun.trail = Stages
           /\ lastRun.status = 200
           /\ lastRun.chunks # <<>>
           /\ Len(lastRun.ids) = Len(lastRun.chunks)
           /\ \E d \in documents : d.id = lastRun.doc /\ d.processed

\* C5: a delete_document request that found its document attempted all three
\* deletions, whatever the outcome of each, and its response says for each of
\* the three stores whether it succeeded.
C5_AllThreeAttempted ==
    (lastDelete.found /\ "vectors" \in lastDelete.attempted)
        => /\ lastDelete.attempted = Stores
           /\ lastDelete.reported = Stores

\* C6: the step in which delete_document answers success leaves no Document,
\* DocumentChunk, ChatSession or ChatMessage of the document in the record
\* store, and a query of its namespace finds no vector.
C6_DeleteRemovesAll ==
    [][(lastDelete' # lastDelete /\ lastDelete'.status = 200) =>
          LET d == lastDelete'.doc
          IN  /\ \A x \in documents' : x.id # d
              /\ \A c \in chunkRows' : c.document # d
              /\ \A x \in sessions' : x.document # d
              /\ \A x \in sessions : x.document = d => x.id \notin DOMAIN messages'
              /\ TopK(index', d, TOP_K) = {{}}]_vars

\* a successful delete of a document that had chunk rows, a session with
\* messages, and vectors
C6_Witness == lastDelete.status = 200 /\ lastDelete.rich

LastN(seq, n) ==
    IF Len(seq) > n THEN SubSeq(seq, Len(seq) - n + 1, Len(seq)) ELSE seq

\* C7: the history a chat turn passes to the generation call is made of the
\* messages created before the turn's user message, oldest first, and of the
\* 10 latest of them when there are more.
C7_HistoryIsLatestTen ==
    (lastTurn.status = 200 /\ lastTurn.chat_called) =>
        [k \in 1..Len(lastTurn.history) |-> lastTurn.history[k].message]
            = [k \in 1..Len(LastN(lastTurn.prior, HISTORY_LIMIT)) |->
                  LastN(lastTurn.prior, HISTORY_LIMIT)[k].created_at]

\* C8: a turn does not succeed, and reaches no generation call, with a message
\* of a role other than user and assistant in its history.
C8_UnknownRoleFails ==
    (lastTurn.status = 200 \/ lastTurn.chat_called) =>
        \A k \in 1..Len(lastTurn.history) :
            lastTurn.prior[lastTurn.history[k].message].role \in KnownRoles

\* C9: a turn whose generation call failed still answers 200 with the
\* apology, and what generate_response returned besides the answer text
\* differs from what it returns in the no-context case.
C9_GenerationFailureFlagged ==
    (lastTurn.status = 200 /\ lastTurn.gen_failed) =>
        /\ lastTurn.result[1] = APOLOGY
        /\ Tail(lastTurn.result) # Tail(<<NO_CONTEXT_ANSWER, {}>>)

\* C10: whenever generate_response ran with no context retrieved, it returned
\* the fixed non-answer with an empty context list and did not call chat.
C10_NoContextSkipsGeneration ==
    (lastTurn.result # <<>> /\ lastTurn.retrieved = {}) =>
        /\ lastTurn.result = <<NO_CONTEXT_ANSWER, {}>>
        /\ ~lastTurn.chat_called

\* a turn that retrieved nothing although its namespace holds vectors
C10_Witness ==
    /\ lastTurn.status = 200
    /\ lastTurn.retrieved = {}
    /\ \E v \in index : v.ns = DocumentOf(lastTurn.session)

\* C11: a process_document run whose extracted text has fewer than 10
\* characters after trimming (none included) ends with the insufficient-content
\* error, having made no embedding call and upserted no batch; no run in
\* flight with such a text is past the length check.
C11_ShortTextRejected ==
    /\ (/\ lastRun.kind = "ingest"
        /\ \E k \in 1..Len(lastRun.trail) : lastRun.trail[k] = "extracted"
        /\ lastRun.text.chars < MIN_TEXT_CHARS)
          => /\ lastRun.pc = "failed"
             /\ lastRun.err = INSUFFICIENT
             /\ ~lastRun.embed_called
             /\ lastRun.next = 0
             /\ lastRun.ids = <<>>
    /\ \A j \in JobIds :
          (jobs[j].kind = "ingest" /\ jobs[j].text.chars < MIN_TEXT_CHARS)
            => /\ jobs[j].pc \in {"received", "extracted"}
               /\ ~jobs[j].embed_called
               /\ jobs[j].next = 0

C11_Witness ==
    /\ lastRun.kind = "ingest"
    /\ lastRun.text = ShortText
    /\ lastRun.err = INSUFFICIENT
    /\ \E v \in index : v.ns = lastRun.ns

CeilDiv(a, b) == (a + b - 1) \div b
Max(a, b) == IF a > b THEN a ELSE b
ReturnedDefaultChunking ==
    /\ lastRun.kind = "chunk_text"
    /\ lastRun.chunk_size = CHUNK_SIZE /\ lastRun.overlap = CHUNK_OVERLAP
    /\ lastRun.text.words >= 1

\* C12 as stated: with size 500 and overlap 50 a text of W >= 1 words yields
\* exactly ceil(max(W - 50, 0) / 450) chunks.
C12_ChunkCountAsStated ==
    ReturnedDefaultChunking
        => /\ lastRun.pc = "returned"
           /\ Len(lastRun.chunks) =
                  CeilDiv(Max(lastRun.text.words - CHUNK_OVERLAP, 0),
                          CHUNK_SIZE - CHUNK_OVERLAP)

\* C12, amended: with size 500 and overlap 50 a text of W >= 1 words yields
\* exactly ceil(W / 450) chunks, the k-th starting at word 450 (k - 1) and
\* holding min(500, W - 450 (k - 1)) words (the last two may fall short of 500).
C12_ChunkCount ==
    ReturnedDefaultChunking
        => /\ lastRun.pc = "returned"
           /\ Len(lastRun.chunks) =
                  CeilDiv(lastRun.text.words, CHUNK_SIZE - CHUNK_OVERLAP)
           /\ \A k \in 1..Len(lastRun.chunks) :
                 /\ lastRun.chunks[k].start = (k - 1) * (CHUNK_SIZE - CHUNK_OVERLAP)
                 /\ lastRun.chunks[k].len =
                        Min(CHUNK_SIZE, lastRun.text.words - lastRun.chunks[k].start)
                 /\ k < Len(lastRun.chunks) - 1 => lastRun.chunks[k].len = CHUNK_SIZE

\* a text of 1000 words: three chunks of 500, 500 and 100 words
C12_Witness ==
    /\ ReturnedDefaultChunking
    /\ lastRun.text.words = 1000
    /\ [k \in 1..Len(lastRun.chunks) |-> lastRun.chunks[k].len] = <<500, 500, 100>>

\* C13: chunk_text called on a non-empty text with overlap >= chunk_size
\* fails; it returns no chunk list.
C13_OverlapRejected ==
    (/\ lastRun.kind = "chunk_text"
     /\ lastRun.text.words >= 1
     /\ lastRun.overlap >= lastRun.chunk_size)
        => lastRun.pc = "failed"

\* C14: the context of a chat turn comes only from vectors upserted under
\* the namespace of the session's document, and a query scoped to a
\* namespace answers with vectors of that namespace only.
C14_NamespaceIsolation ==
    /\ lastTurn.match_ns \subseteq {lastTurn.doc}
    /\ \A ns \in Namespaces : \A P \in TopK(index, ns, TOP_K) :
          \A v \in P : v.ns = ns

C14_Witness ==
    /\ lastTurn.status = 200
    /\ lastTurn.match_ns = {lastTurn.doc}
    /\ \E v \in index : v.ns # lastTurn.doc
    /\ lastDelete.status = 200

\* the declared types of the specification, and the types it takes for images
DeclaredTypes == {"pdf", "docx", "doc", "csv", "txt", "image"}

\* C15: extraction of a well-formed file succeeds for every declared type
\* and for every extension the upload endpoint accepts, and fails as
\* unsupported for every other type.
C15_AcceptedTypesExtract ==
    (lastRun.kind = "ingest" /\ "extract" \notin lastRun.faults)
        => IF lastRun.file_type \in DeclaredTypes \cup ALLOWED_FILE_TYPES
           THEN \E k \in 1..Len(lastRun.trail) : lastRun.trail[k] = "extracted"
           ELSE lastRun.pc = "failed" /\ lastRun.err = "Unsupported file type"

\* C16: a chat turn whose retrieval met an empty namespace, a failing
\* embedding call or a failing index query got the empty list from
\* retrieve_context and ended normally with the no-context answer.
C16_RetrievalNeverRaises ==
    (/\ lastTurn.result # <<>>
     /\ lastTurn.ns_empty \/ lastTurn.retrieval_faults # {})
        => /\ lastTurn.retrieved = {}
           /\ lastTurn.result = <<NO_CONTEXT_ANSWER, {}>>
           /\ ~lastTurn.chat_called
           /\ lastTurn.status = 200
           /\ lastTurn.saved = 2

C16_Witness ==
    /\ lastTurn.status = 200
    /\ lastTurn.retrieval_faults = {"query"}
    /\ ~lastTurn.ns_empty

\* what an ingestion of document ns writes when it runs alone
AloneChunks(ns) == chunk_text(TextOf(ns), CHUNK_SIZE, CHUNK_OVERLAP).chunks
AloneVectors(ns) ==
    LET c == AloneChunks(ns)
    IN  {[ns |-> ns, id |-> <<ns, k - 1>>, text |-> c[k]] : k \in 1..Len(c)}
AloneTable == [ns \in Namespaces |-> [chunks |-> AloneChunks(ns),
                                      vectors |-> AloneVectors(ns)]]

\* C17: with ingestions of different documents interleaved, every vector in
\* the index carries the id made of its document and chunk index and the
\* text its own document's ingestion gave it, ids of different documents
\* differ, no step removes a vector, and an ingestion that returns leaves
\* its namespace holding exactly what it writes when run alone.
C17_ConcurrentIngestions ==
    /\ [](/\ \A ns \in Namespaces :
                \A v \in index : v.ns = ns => v \in AloneTable[ns].vectors
          /\ \A a, b \in Namespaces :
                a # b => {v.id : v \in {x \in index : x.ns = a}}
                           \cap {v.id : v \in {x \in index : x.ns = b}} = {}
          /\ lastRun.pc = "returned"
                => LET alone == AloneTable[lastRun.ns]
                   IN  /\ {v \in index : v.ns = lastRun.ns} = alone.vectors
                       /\ lastRun.chunks = alone.chunks
                       /\ {lastRun.ids[k] : k \in 1..Len(lastRun.ids)}
                             = {v.id : v \in alone.vectors})
    /\ [][\A v \in index : v \in index']_vars

\* document 1's ingestion returned while another document's ingestion was
\* at or past its upserts, with that document's vectors in the index
C17_Witness ==
    /\ lastRun.pc = "returned" /\ lastRun.ns = 1
    /\ \E j \in JobIds : jobs[j].pc \in {"embedded", "indexed"} /\ jobs[j].ns # 1
    /\ \E v \in index : v.ns # 1

C19_ErrorLeavesMessages ==
    /\ lastTurn.status \in {400, 500} => lastTurn.saved = 0
    /\ \A sid \in DOMAIN messages : \A k \in 1..Len(messages[sid]) :
          messages[sid][k].role = "user"
            => /\ k < Len(messages[sid])
               /\ messages[sid][k + 1].role = "assistant"

====
